---- MODULE Spec2Model ----
(***************************************************************************)
(* Model of the email open-tracking pixel service (src/app.py): the Flask  *)
(* handler track and the row upsert update_sheet over a spreadsheet        *)
(* workbook.                                                               *)
(*                                                                         *)
(* A string is a sequence of symbols.  Symbols on which the code computes  *)
(* (strip, lower, int, str) are single characters; a text the code only    *)
(* copies or compares as a whole (a column name, "OPENED", a subject) is   *)
(* written as one symbol.                                                  *)
(***************************************************************************)
EXTENDS Integers, Sequences, FiniteSets, TLC

VARIABLES
    tabs,      \* the workbook's worksheet titles, in workbook order
    grid,      \* title -> the worksheet's rows (row 1 is the header row)
    clock,     \* wall clock in seconds (datetime.now)
    req,       \* slot -> the request being handled in that slot
    loc        \* slot -> the handler's local state for that request

vars == <<tabs, grid, clock, req, loc>>

----------------------------------------------------------------------------
(* Bounds *)

MaxReq == 2          \* requests per behaviour of the sequential specification
MaxConcReq == 2      \* requests per behaviour of the concurrent specification

Slots == {1, 2}

----------------------------------------------------------------------------
(* Strings *)

EmptyStr == <<>>

S(x) == <<x>>

Max(a, b) == IF a >= b THEN a ELSE b

\* whitespace characters removed by str.strip()
IsSpace(c) == c = " "

\* str.lower(), symbol by symbol
LowerSym(c) ==
    CASE c = "A" -> "a"
      [] c = "B" -> "b"
      [] c = "Leads_email" -> "leads_email"
      [] c = "Open_count" -> "open_count"
      [] c = "Open_timestamp" -> "open_timestamp"
      [] c = "Open_status" -> "open_status"
      [] c = "Last_open_timestamp" -> "last_open_timestamp"
      [] c = "From" -> "from"
      [] c = "Subject" -> "subject"
      [] c = "Campaign_name" -> "campaign_name"
      [] c = "Timezone" -> "timezone"
      [] c = "Start_Date" -> "start_date"
      [] c = "Template" -> "template"
      [] c = "Email" -> "email"
      [] c = "OPEN_COUNT" -> "open_count"
      [] c = "Notes" -> "notes"
      [] OTHER -> c

Lower(s) == [i \in 1..Len(s) |-> LowerSym(s[i])]

RECURSIVE LStrip(_)
LStrip(s) == IF s # <<>> /\ IsSpace(Head(s)) THEN LStrip(Tail(s)) ELSE s

RECURSIVE RStrip(_)
RStrip(s) ==
    IF s # <<>> /\ IsSpace(s[Len(s)]) THEN RStrip(SubSeq(s, 1, Len(s) - 1)) ELSE s

Strip(s) == RStrip(LStrip(s))

Digits == <<"0", "1", "2", "3", "4", "5", "6", "7", "8", "9">>

IsDigit(c) == \E d \in 1..10 : Digits[d] = c

DigitVal(c) == (CHOOSE d \in 1..10 : Digits[d] = c) - 1

\* int(s) accepts surrounding whitespace and decimal digits
IsIntLiteral(s) ==
    LET t == Strip(s) IN t # <<>> /\ \A i \in 1..Len(t) : IsDigit(t[i])

RECURSIVE DigitsValue(_)
DigitsValue(t) ==
    IF t = <<>> THEN 0
    ELSE 10 * DigitsValue(SubSeq(t, 1, Len(t) - 1)) + DigitVal(t[Len(t)])

IntOf(s) == DigitsValue(Strip(s))

\* str(n) for n >= 0
RECURSIVE StrOfInt(_)
StrOfInt(n) ==
    IF n < 10 THEN <<Digits[n + 1]>>
    ELSE StrOfInt(n \div 10) \o <<Digits[(n % 10) + 1]>>

\* now.strftime("%Y-%m-%d %H:%M:%S"): the clock value written out
Strftime(now) == <<"T">> \o StrOfInt(now)

----------------------------------------------------------------------------
(* Worksheet cells (the gspread calls the code makes) *)

\* a row is stored without trailing empty cells
RECURSIVE TrimRow(_)
TrimRow(row) ==
    IF row # <<>> /\ row[Len(row)] = EmptyStr
    THEN TrimRow(SubSeq(row, 1, Len(row) - 1))
    ELSE row

Cell(row, c) == IF c \in 1..Len(row) THEN row[c] ELSE EmptyStr

PadRow(row, n) == [c \in 1..Max(n, Len(row)) |-> Cell(row, c)]

RECURSIVE MaxWidth(_)
MaxWidth(rows) ==
    IF rows = <<>> THEN 0 ELSE Max(Len(Head(rows)), MaxWidth(Tail(rows)))

\* sheet.row_values(1)
RowValues1(rows) == IF rows = <<>> THEN <<>> ELSE TrimRow(rows[1])

\* sheet.get_all_values(): every row, padded to a rectangle
GetAllValues(rows) == [r \in 1..Len(rows) |-> PadRow(rows[r], MaxWidth(rows))]

\* sheet.update_cell(r, c, v), r and c counted from 1
UpdateCell(rows, r, c, v) ==
    LET n    == Max(r, Len(rows))
        old  == [k \in 1..n |-> IF k <= Len(rows) THEN rows[k] ELSE <<>>]
        wide == PadRow(old[r], c)
    IN  [old EXCEPT ![r] = TrimRow([wide EXCEPT ![c] = v])]

\* sheet.append_row(values): a new row after the last row
AppendRow(rows, values) == Append(rows, TrimRow(values))

----------------------------------------------------------------------------
(* update_sheet *)

PIXEL_BYTES == "GIF89a_1x1_transparent_42_bytes"

DefaultHeaders ==
    << S("Open_timestamp"), S("Open_status"), S("Leads_email"), S("Open_count"),
       S("Last_open_timestamp"), S("From"), S("Subject"), S("Campaign_name"),
       S("Timezone"), S("Start_Date"), S("Template") >>

Required ==
    << S("Open_status"), S("Open_count"), S("Last_open_timestamp"), S("From"),
       S("Subject"), S("Campaign_name"), S("Timezone"), S("Start_Date"),
       S("Template") >>

\* one store call (or the exception the code raises by itself) of update_sheet
Op(op, r, c, v) == [op |-> op, r |-> r, c |-> c, v |-> v]

OpUpdateCell(r, c, v) == Op("update_cell", r, c, v)
OpAppendRow(values) == Op("append_row", 0, 0, values)
OpGetAllValues == Op("get_all_values", 0, 0, <<>>)
OpRaise(exc) == Op("raise", 0, 0, S(exc))

\* h in col_map, for col_map = {h: i for i, h in enumerate(headers)} kept in
\* step with headers.append
InColMap(headers, h) == \E i \in 1..Len(headers) : headers[i] = h

\* col_map[h]: the index, from 0, of the last column named h
ColMap(headers, h) ==
    (CHOOSE i \in 1..Len(headers) :
        /\ headers[i] = h
        /\ \A j \in 1..Len(headers) : headers[j] = h => j <= i) - 1

\* lines 51-58: the headers the code works with, and the write of the default
\* header row when row 1 is empty
InitialHeaders(row1) == IF row1 = <<>> THEN DefaultHeaders ELSE row1

EnsureHeaderOps(row1) ==
    IF row1 = <<>> THEN <<OpAppendRow(DefaultHeaders)>> ELSE <<>>

\* the loop of lines 68-72 without the test of line 69: every required column
\* is appended, present or not
EnsureColumnsUnchecked(headers, k) ==
    [headers |-> headers \o SubSeq(Required, k, Len(Required)),
     ops |-> [i \in 1..(Len(Required) - k + 1) |->
                OpUpdateCell(1, Len(headers) + i, Required[k + i - 1])]]

\* lines 68-72: the loop over required, from its k-th element; the result is
\* the extended headers and the update_cell calls made
RECURSIVE EnsureColumns(_, _)
EnsureColumns(headers, k) ==
    IF k > Len(Required) THEN [headers |-> headers, ops |-> <<>>]
    ELSE IF InColMap(headers, Required[k]) THEN EnsureColumns(headers, k + 1)
    ELSE LET grown == Append(headers, Required[k])
             rest  == EnsureColumns(grown, k + 1)
         IN  [headers |-> rest.headers,
              ops |-> <<OpUpdateCell(1, Len(grown), Required[k])>> \o rest.ops]

\* line 79 without the two lower() calls
EmailMatchesCased(cell, email) == Strip(cell) = email

\* line 79: the row's email cell, trimmed and lowered, against the lowered input
EmailMatches(cell, email) == Lower(Strip(cell)) = Lower(email)

\* lines 78-79: position in body (from 1) of the first matching row, 0 when none
RECURSIVE FindRow(_, _, _, _)
FindRow(headers, body, email, k) ==
    IF k > Len(body) THEN 0
    ELSE IF EmailMatches(body[k][ColMap(headers, S("Leads_email")) + 1], email)
         THEN k
         ELSE FindRow(headers, body, email, k + 1)

\* lines 89-101 without the tests "if subject:", ...: the cell is written
\* whatever the field holds
OptionalUpdateAlways(headers, ridx, name, v) ==
    <<OpUpdateCell(ridx, ColMap(headers, S(name)) + 1, v)>>

\* the optional update_cell calls of lines 89-101
OptionalUpdate(headers, ridx, name, v) ==
    IF v # EmptyStr
    THEN <<OpUpdateCell(ridx, ColMap(headers, S(name)) + 1, v)>>
    ELSE <<>>

\* a count that moves on by two
NewCountSkipping(lit) == StrOfInt(IntOf(lit) + 2)

\* line 81: new_count = int(...) + 1, as the text of the cell
NewCount(lit) == StrOfInt(IntOf(lit) + 1)

\* the same calls with the count written last instead of first
UpdateOpsCountLast(headers, ridx, row, f) ==
    LET cnt == row[ColMap(headers, S("Open_count")) + 1]
        lit == IF cnt # EmptyStr THEN cnt ELSE S("0")
    IN  IF ~IsIntLiteral(lit) THEN <<OpRaise("ValueError")>>
        ELSE IF ~InColMap(headers, S("Open_timestamp")) THEN <<OpRaise("KeyError")>>
        ELSE
          << OpUpdateCell(ridx, ColMap(headers, S("Open_timestamp")) + 1, f.timestamp),
             OpUpdateCell(ridx, ColMap(headers, S("Open_status")) + 1, S("OPENED")),
             OpUpdateCell(ridx, ColMap(headers, S("From")) + 1, f.sender) >>
          \o OptionalUpdate(headers, ridx, "Subject", f.subject)
          \o OptionalUpdate(headers, ridx, "Campaign_name", f.sheet_name)
          \o OptionalUpdate(headers, ridx, "Timezone", f.timezone)
          \o OptionalUpdate(headers, ridx, "Start_Date", f.start_date)
          \o OptionalUpdate(headers, ridx, "Template", f.template)
          \o <<OpUpdateCell(ridx, ColMap(headers, S("Open_count")) + 1, NewCount(lit))>>

\* lines 80-102: the calls that update the row at sheet row ridx
UpdateOps(headers, ridx, row, f) ==
    LET cnt == row[ColMap(headers, S("Open_count")) + 1]
        lit == IF cnt # EmptyStr THEN cnt ELSE S("0")
    IN  IF ~IsIntLiteral(lit) THEN <<OpRaise("ValueError")>>
        ELSE
          <<OpUpdateCell(ridx, ColMap(headers, S("Open_count")) + 1, NewCount(lit))>>
          \o
          (IF ~InColMap(headers, S("Open_timestamp")) THEN <<OpRaise("KeyError")>>
           ELSE
             << OpUpdateCell(ridx, ColMap(headers, S("Open_timestamp")) + 1, f.timestamp),
                OpUpdateCell(ridx, ColMap(headers, S("Open_status")) + 1, S("OPENED")),
                OpUpdateCell(ridx, ColMap(headers, S("From")) + 1, f.sender) >>
             \o OptionalUpdate(headers, ridx, "Subject", f.subject)
             \o OptionalUpdate(headers, ridx, "Campaign_name", f.sheet_name)
             \o OptionalUpdate(headers, ridx, "Timezone", f.timezone)
             \o OptionalUpdate(headers, ridx, "Start_Date", f.start_date)
             \o OptionalUpdate(headers, ridx, "Template", f.template))

Assign(row, headers, name, v) == [row EXCEPT ![ColMap(headers, S(name)) + 1] = v]

\* lines 105-116
NewRow(headers, f) ==
    LET r0  == [i \in 1..Len(headers) |-> EmptyStr]
        r1  == Assign(r0, headers, "Open_timestamp", f.timestamp)
        r2  == Assign(r1, headers, "Open_status", S("OPENED"))
        r3  == Assign(r2, headers, "Leads_email", f.email)
        r4  == Assign(r3, headers, "Open_count", S("1"))
        r5  == Assign(r4, headers, "Last_open_timestamp", f.timestamp)
        r6  == Assign(r5, headers, "From", f.sender)
        r7  == Assign(r6, headers, "Subject", f.subject)
        r8  == Assign(r7, headers, "Campaign_name", f.sheet_name)
        r9  == Assign(r8, headers, "Timezone", f.timezone)
        r10 == Assign(r9, headers, "Start_Date", f.start_date)
    IN  Assign(r10, headers, "Template", f.template)

\* the new row laid out in the order of the default header
AppendOpsByPosition(headers, f) ==
    IF ~InColMap(headers, S("Open_timestamp")) \/ ~InColMap(headers, S("Leads_email"))
    THEN <<OpRaise("KeyError")>>
    ELSE <<OpAppendRow(NewRow(DefaultHeaders, f))>>

\* lines 104-118
AppendOps(headers, f) ==
    IF ~InColMap(headers, S("Open_timestamp")) \/ ~InColMap(headers, S("Leads_email"))
    THEN <<OpRaise("KeyError")>>
    ELSE <<OpAppendRow(NewRow(headers, f))>>

\* the rows numbered from 1, as if the header were not skipped
UpsertOpsStartOne(headers, body, f) ==
    IF body # <<>> /\ ~InColMap(headers, S("Leads_email"))
    THEN <<OpRaise("KeyError")>>
    ELSE LET k == FindRow(headers, body, f.email, 1)
         IN  IF k > 0 THEN UpdateOps(headers, k, body[k], f)
             ELSE AppendOps(headers, f)

\* lines 77-118, given the rows read at line 75
UpsertOps(headers, body, f) ==
    IF body # <<>> /\ ~InColMap(headers, S("Leads_email"))
    THEN <<OpRaise("KeyError")>>
    ELSE LET k == FindRow(headers, body, f.email, 1)
         IN  IF k > 0 THEN UpdateOps(headers, k + 1, body[k], f)
             ELSE AppendOps(headers, f)

----------------------------------------------------------------------------
(* track: decoding and suppression *)

MAILTRACKING_DEFAULT_TAB == S("USA")

SuppressSeconds == 7

NoFields ==
    [email |-> EmptyStr, sender |-> EmptyStr, sheet |-> EmptyStr,
     sheet_name |-> EmptyStr, subject |-> EmptyStr, timezone |-> EmptyStr,
     date |-> EmptyStr, template |-> EmptyStr,
     sent_time |-> [form |-> "absent", at |-> 0]]

\* lines 133-136: the token is base64url text of a JSON document.  The result
\* says whether the try block raised, and gives the value bound to info.
\*   b64      -- "ok" | "bad"            (binascii.Error on bad padding)
\*   json     -- "invalid" | "list" | "object"
\*   metadata -- "absent" | "null" | "list" | "string" | "mapping"
DecodeToken(path) ==
    IF path.b64 # "ok" THEN [raised |-> TRUE, info |-> "none", fields |-> NoFields]
    ELSE IF path.json = "invalid"
         THEN [raised |-> TRUE, info |-> "none", fields |-> NoFields]
    ELSE IF path.json # "object"      \* .get on a list: AttributeError, caught
         THEN [raised |-> TRUE, info |-> "none", fields |-> NoFields]
    ELSE IF path.metadata = "absent"  \* .get("metadata", {}) gives {}
         THEN [raised |-> FALSE, info |-> "mapping", fields |-> NoFields]
    ELSE IF path.metadata = "mapping"
         THEN [raised |-> FALSE, info |-> "mapping", fields |-> path.fields]
    ELSE [raised |-> FALSE, info |-> path.metadata, fields |-> NoFields]

\* lines 142-150: info.get(...) needs a mapping; None, a list and a string
\* have no get that takes a key: AttributeError, outside every try block
ExtractRaises(info) == info # "mapping"

\* a parser that makes a timestamp of any text
FromIsoFormatLenient(st) == [ok |-> TRUE, aware |-> TRUE, at |-> st.at]

\* line 155: datetime.fromisoformat(sent_time_s)
FromIsoFormat(st) ==
    [ok |-> st.form \in {"iso_offset", "iso_naive"},
     aware |-> st.form = "iso_offset",
     at |-> st.at]

\* lines 153-160: TRUE when the request is skipped as an early hit.  now is
\* timezone-aware; subtracting a naive datetime raises TypeError, which the
\* except clause swallows like a parse error.
IsEarlyHit(now, st) ==
    LET dt == FromIsoFormat(st)
    IN  /\ st.form # "absent"
        /\ dt.ok
        /\ dt.aware
        /\ now - dt.at < SuppressSeconds

\* the arguments track passes to update_sheet (lines 177-187)
UpsertFields(q) ==
    LET f == DecodeToken(q.path).fields
    IN  [email |-> f.email, sender |-> f.sender, timestamp |-> Strftime(q.now),
         sheet_name |-> f.sheet_name, subject |-> f.subject,
         timezone |-> f.timezone, start_date |-> f.date, template |-> f.template]

\* the fallback name whatever tabs the workbook has
ResolveTabFixed(sheet_tab, seen) ==
    IF sheet_tab # EmptyStr THEN sheet_tab ELSE MAILTRACKING_DEFAULT_TAB

\* lines 166-167
ResolveTab(sheet_tab, seen) ==
    IF sheet_tab # EmptyStr THEN sheet_tab
    ELSE IF seen # <<>> THEN seen[1] ELSE MAILTRACKING_DEFAULT_TAB

InTabs(title, seen) == \E i \in 1..Len(seen) : seen[i] = title

\* line 176
ShouldRecord(email, sender) == email # EmptyStr /\ sender # EmptyStr

----------------------------------------------------------------------------
(* track: one handler, store call by store call *)

IdleLoc ==
    [pc |-> "idle",
     sheet_tab |-> EmptyStr,   \* the resolved tab title
     seen |-> <<>>,            \* tabs, as listed at line 165
     headers |-> <<>>,         \* update_sheet's headers
     body |-> <<>>,            \* update_sheet's body, the rows read at line 75
     todo |-> <<>>,            \* the store calls update_sheet has still to make
     calls |-> 0,              \* store calls made so far
     status |-> 0,             \* HTTP status of the response, 0 while none
     mimetype |-> "",
     data |-> "",              \* the response body
     exc |-> "",               \* the exception that left track, if any
     caught |-> "",            \* the exception an except clause of track caught
     fault |-> "",             \* the store call that raised, if one did
     suppressed |-> FALSE,     \* returned at line 158
     invoked |-> FALSE,        \* update_sheet was called
     completed |-> FALSE,      \* update_sheet returned
     ridx |-> -1]              \* sheet row matched at line 79; 0: none matched

StartLoc == [IdleLoc EXCEPT !.pc = "start"]

\* return send_file(io.BytesIO(PIXEL_BYTES), mimetype="image/gif")
SendPixel(l) ==
    [l EXCEPT !.pc = "done", !.status = 200, !.mimetype = "image/gif",
              !.data = PIXEL_BYTES, !.seen = <<>>, !.headers = <<>>,
              !.body = <<>>, !.todo = <<>>]

\* an exception leaves track: Flask answers 500 with an error page
Escapes(l, e) ==
    [l EXCEPT !.pc = "done", !.status = 500, !.mimetype = "text/html",
              !.data = "Internal Server Error", !.exc = e,
              !.seen = <<>>, !.headers = <<>>, !.body = <<>>, !.todo = <<>>]

\* lines 163-170 without the try/except around them: the error leaves track
CatchOpenErrorAbsent(l, e) == Escapes(l, e)

\* lines 171-173: the except clause around opening the workbook and the tab
CatchOpenError(l, e) == SendPixel([l EXCEPT !.caught = e])

\* lines 137-139
CatchDecodeError(l, e) == SendPixel([l EXCEPT !.caught = e])

Result(t, g, l) == [tabs |-> t, grid |-> g, loc |-> l]

\* lines 128-164: decode, extract, suppression, gc.open
StepStart(st, l, q, fail) ==
    LET d == DecodeToken(q.path)
    IN  IF d.raised THEN Result(st.tabs, st.grid, CatchDecodeError(l, "DecodeError"))
        ELSE IF ExtractRaises(d.info)
             THEN Result(st.tabs, st.grid, Escapes(l, "AttributeError"))
        ELSE IF IsEarlyHit(q.now, d.fields.sent_time)
             THEN Result(st.tabs, st.grid, SendPixel([l EXCEPT !.suppressed = TRUE]))
        ELSE IF fail
             THEN Result(st.tabs, st.grid,
                         CatchOpenError([l EXCEPT !.calls = @ + 1, !.fault = "open"],
                                        "APIError"))
        ELSE Result(st.tabs, st.grid, [l EXCEPT !.calls = @ + 1, !.pc = "worksheets"])

\* lines 165-168: wb.worksheets() and the choice of the tab
StepWorksheets(st, l, q, fail) ==
    LET title == ResolveTab(DecodeToken(q.path).fields.sheet, st.tabs)
    IN  IF fail
        THEN Result(st.tabs, st.grid,
                    CatchOpenError([l EXCEPT !.calls = @ + 1, !.fault = "worksheets"],
                                   "APIError"))
        ELSE Result(st.tabs, st.grid,
                    [l EXCEPT !.calls = @ + 1, !.seen = st.tabs, !.sheet_tab = title,
                              !.pc = IF InTabs(title, st.tabs) THEN "worksheet"
                                     ELSE "add_worksheet"])

\* line 169: wb.add_worksheet; the service refuses a title that exists
StepAddWorksheet(st, l, q, fail) ==
    IF fail \/ InTabs(l.sheet_tab, st.tabs)
    THEN Result(st.tabs, st.grid,
                CatchOpenError([l EXCEPT !.calls = @ + 1, !.fault = "add_worksheet"],
                               "APIError"))
    ELSE Result(Append(st.tabs, l.sheet_tab),
                [st.grid EXCEPT ![l.sheet_tab] = <<>>],
                [l EXCEPT !.calls = @ + 1, !.pc = "worksheet"])

\* the same with the workbook's first tab opened in place of the resolved one
StepWorksheetFirst(st, l, q, fail) ==
    LET f == DecodeToken(q.path).fields
    IN  IF fail \/ ~InTabs(l.sheet_tab, st.tabs)
        THEN Result(st.tabs, st.grid,
                    CatchOpenError([l EXCEPT !.calls = @ + 1, !.fault = "worksheet"],
                                   "APIError"))
        ELSE IF ShouldRecord(f.email, f.sender)
        THEN Result(st.tabs, st.grid,
                    [l EXCEPT !.calls = @ + 1, !.invoked = TRUE, !.pc = "row_values",
                              !.sheet_tab = st.tabs[1]])
        ELSE Result(st.tabs, st.grid, SendPixel([l EXCEPT !.calls = @ + 1]))

\* lines 170-190: wb.worksheet, then the call of update_sheet or the return
StepWorksheet(st, l, q, fail) ==
    LET f == DecodeToken(q.path).fields
    IN  IF fail \/ ~InTabs(l.sheet_tab, st.tabs)
        THEN Result(st.tabs, st.grid,
                    CatchOpenError([l EXCEPT !.calls = @ + 1, !.fault = "worksheet"],
                                   "APIError"))
        ELSE IF ShouldRecord(f.email, f.sender)
        THEN Result(st.tabs, st.grid,
                    [l EXCEPT !.calls = @ + 1, !.invoked = TRUE, !.pc = "row_values"])
        ELSE Result(st.tabs, st.grid, SendPixel([l EXCEPT !.calls = @ + 1]))

\* lines 51-72: sheet.row_values(1); the header calls depend on it alone
StepRowValues(st, l, q, fail) ==
    LET row1 == RowValues1(st.grid[l.sheet_tab])
        ens  == EnsureColumns(InitialHeaders(row1), 1)
    IN  IF fail
        THEN Result(st.tabs, st.grid,
                    Escapes([l EXCEPT !.calls = @ + 1, !.fault = "row_values"],
                            "APIError"))
        ELSE Result(st.tabs, st.grid,
                    [l EXCEPT !.calls = @ + 1, !.headers = ens.headers,
                              !.todo = EnsureHeaderOps(row1) \o ens.ops
                                       \o <<OpGetAllValues>>,
                              !.pc = "todo"])

\* update_sheet returns when no call is left; track then returns the pixel
AfterCall(l) ==
    IF l.todo = <<>> THEN SendPixel([l EXCEPT !.completed = TRUE]) ELSE l

\* the next store call of update_sheet (lines 58, 72, 75, 82-101, 118)
StepTodo(st, l, q, fail) ==
    LET op   == Head(l.todo)
        rows == st.grid[l.sheet_tab]
        l1   == [l EXCEPT !.calls = @ + 1, !.todo = Tail(@)]
    IN  IF op.op = "raise" THEN Result(st.tabs, st.grid, Escapes(l, op.v[1]))
        ELSE IF fail
        THEN Result(st.tabs, st.grid, Escapes([l1 EXCEPT !.fault = op.op], "APIError"))
        ELSE IF op.op = "update_cell"
        THEN Result(st.tabs,
                    [st.grid EXCEPT ![l.sheet_tab] = UpdateCell(rows, op.r, op.c, op.v)],
                    AfterCall(l1))
        ELSE IF op.op = "append_row"
        THEN Result(st.tabs,
                    [st.grid EXCEPT ![l.sheet_tab] = AppendRow(rows, op.v)],
                    AfterCall(l1))
        ELSE \* get_all_values()[1:]
             LET all  == GetAllValues(rows)
                 body == SubSeq(all, 2, Len(all))
                 k    == IF InColMap(l.headers, S("Leads_email"))
                         THEN FindRow(l.headers, body, UpsertFields(q).email, 1)
                         ELSE 0
             IN  Result(st.tabs, st.grid,
                        [l1 EXCEPT !.body = body,
                                   !.todo = UpsertOps(l.headers, body, UpsertFields(q)),
                                   !.ridx = IF k > 0 THEN k + 1 ELSE 0])

Step(st, l, q, fail) ==
    CASE l.pc = "start"         -> StepStart(st, l, q, fail)
      [] l.pc = "worksheets"    -> StepWorksheets(st, l, q, fail)
      [] l.pc = "add_worksheet" -> StepAddWorksheet(st, l, q, fail)
      [] l.pc = "worksheet"     -> StepWorksheet(st, l, q, fail)
      [] l.pc = "row_values"    -> StepRowValues(st, l, q, fail)
      [] l.pc = "todo"          -> StepTodo(st, l, q, fail)

\* the handler's locals once it has returned
Returned(l) == IF l.pc = "done" THEN [l EXCEPT !.calls = 0] ELSE l

\* track from l to its return when no further store call raises
RECURSIVE Run(_, _, _)
Run(st, l, q) ==
    IF l.pc = "done" THEN Result(st.tabs, st.grid, l)
    ELSE LET n == Step(st, l, q, FALSE)
         IN  Run([tabs |-> n.tabs, grid |-> n.grid], n.loc, q)

\* every way track can run from l to its return: at each store call, either
\* that call raises or it succeeds and track goes on
RECURSIVE Outcomes(_, _, _)
Outcomes(st, l, q) ==
    IF l.pc = "done" THEN {Result(st.tabs, st.grid, l)}
    ELSE LET bad == Step(st, l, q, TRUE)
             ok  == Step(st, l, q, FALSE)
         IN  {Run([tabs |-> bad.tabs, grid |-> bad.grid], bad.loc, q)}
             \cup Outcomes([tabs |-> ok.tabs, grid |-> ok.grid], ok.loc, q)

----------------------------------------------------------------------------
(* Inputs *)

USA == S("USA")
UK == S("UK")
TabTitles == {USA, UK}

\* recipient addresses: one address in three spellings, and another address
EmailA == <<"a">>
EmailUpper == <<"A">>
EmailSpaced == <<" ", "a">>
EmailB == <<"b">>
Sender == S("s@x")

OptionalNames == {"sheet_name", "subject", "timezone", "date", "template"}

WithOptional(f, names, v) ==
    [f EXCEPT !.sheet_name = IF "sheet_name" \in names THEN v ELSE @,
              !.subject = IF "subject" \in names THEN v ELSE @,
              !.timezone = IF "timezone" \in names THEN v ELSE @,
              !.date = IF "date" \in names THEN v ELSE @,
              !.template = IF "template" \in names THEN v ELSE @]

\* the optional fields of a request: none, all of them, or just one
OptionalProfiles ==
    {NoFields}
    \cup {WithOptional(NoFields, OptionalNames, S(v)) : v \in {"x", "y"}}
    \cup {WithOptional(NoFields, {n}, S("z")) : n \in OptionalNames}

MetadataPath(f) == [b64 |-> "ok", json |-> "object", metadata |-> "mapping", fields |-> f]

\* tokens that do not decode to a mapping
BrokenPaths ==
    {[b64 |-> "bad", json |-> "invalid", metadata |-> "absent", fields |-> NoFields],
     [b64 |-> "ok", json |-> "invalid", metadata |-> "absent", fields |-> NoFields],
     [b64 |-> "ok", json |-> "list", metadata |-> "absent", fields |-> NoFields]}
    \cup {[b64 |-> "ok", json |-> "object", metadata |-> m, fields |-> NoFields] :
             m \in {"absent", "null", "list", "string"}}

\* opens that can be recorded
OpenFields ==
    {[p EXCEPT !.email = EmailA, !.sender = Sender] : p \in OptionalProfiles}
    \cup {[p EXCEPT !.email = e, !.sender = Sender] :
             e \in {EmailUpper, EmailSpaced},
             p \in {NoFields, WithOptional(NoFields, OptionalNames, S("y"))}}
    \cup {[NoFields EXCEPT !.email = e, !.sender = Sender, !.sheet = UK] :
             e \in {EmailA, EmailUpper, EmailSpaced}}
    \cup {[NoFields EXCEPT !.email = EmailB, !.sender = Sender]}

\* opens with an email or a sender missing
PartialFields ==
    {[NoFields EXCEPT !.email = e, !.sender = s, !.sheet = t] :
        e \in {EmptyStr, EmailA}, s \in {EmptyStr, Sender}, t \in {EmptyStr, UK}}
    \ {[NoFields EXCEPT !.email = EmailA, !.sender = Sender, !.sheet = t] :
        t \in {EmptyStr, UK}}

\* opens that carry a sent_time, either side of the threshold
TimedFields(now) ==
    {[NoFields EXCEPT !.email = EmailA, !.sender = Sender,
                      !.sent_time = [form |-> fm, at |-> now - d]] :
        fm \in {"iso_offset", "iso_naive"},
        d \in {SuppressSeconds - 1, SuppressSeconds}}
    \cup {[NoFields EXCEPT !.email = EmailA, !.sender = Sender,
                           !.sent_time = [form |-> "garbage", at |-> 0]]}

Paths(now) ==
    BrokenPaths
    \cup {MetadataPath(f) : f \in OpenFields \cup PartialFields \cup TimedFields(now)}

NoRequest == [path |-> MetadataPath(NoFields), now |-> 0]

----------------------------------------------------------------------------
(* Workbooks the service may find *)

EmptyGrid == [t \in TabTitles |-> <<>>]

\* a row under DefaultHeaders
FullRow(ts, email, count, last, opt) ==
    <<ts, S("OPENED"), email, count, last, Sender, opt, opt, opt, opt, opt>>

LegacyHeaders == <<S("Leads_email"), S("Open_timestamp"), S("Notes")>>
NoTimestampHeaders == <<S("Leads_email"), S("Notes")>>
OldNamesHeaders == <<S("Email"), S("Open_timestamp"), S("Open_count")>>

\* every column of DefaultHeaders, two of them in another letter case
OtherCaseHeaders ==
    <<S("Open_timestamp"), S("Open_status"), S("leads_email"), S("OPEN_COUNT"),
      S("Last_open_timestamp"), S("From"), S("Subject"), S("Campaign_name"),
      S("Timezone"), S("Start_Date"), S("Template")>>

Workbooks ==
    { \* a workbook without tabs
      [tabs |-> <<>>, grid |-> EmptyGrid],
      \* one tab, nothing in it
      [tabs |-> <<USA>>, grid |-> EmptyGrid],
      \* a tab written by this program, and a tab with a header of its own
      [tabs |-> <<USA, UK>>,
       grid |-> [EmptyGrid EXCEPT
                   ![USA] = <<DefaultHeaders,
                              FullRow(S("T0"), EmailA, S("1"), S("T0"), S("w"))>>,
                   ![UK] = <<LegacyHeaders, <<<<" ", "A", " ">>, S("T0"), S("n")>>>>]],
      \* a header without Open_timestamp, and rows whose count is no number
      [tabs |-> <<USA, UK>>,
       grid |-> [EmptyGrid EXCEPT
                   ![USA] = <<NoTimestampHeaders, <<EmailA, S("n")>>>>,
                   ![UK] = <<DefaultHeaders,
                             FullRow(S("T0"), EmailA, S("many"), S("T0"), EmptyStr),
                             FullRow(S("T0"), EmailB, EmptyStr, S("T0"), EmptyStr)>>]],
      \* a header that names the email column differently
      [tabs |-> <<USA>>,
       grid |-> [EmptyGrid EXCEPT
                   ![USA] = <<OldNamesHeaders, <<EmailA, S("T0"), S("1")>>>>]],
      \* a header whose names differ from the program's in letter case only
      [tabs |-> <<USA>>,
       grid |-> [EmptyGrid EXCEPT
                   ![USA] = <<OtherCaseHeaders,
                              FullRow(S("T0"), EmailA, S("1"), S("T0"), EmptyStr)>>]] }

----------------------------------------------------------------------------
(* Sequential service: one request at a time *)

Init ==
    /\ \E w \in Workbooks : tabs = w.tabs /\ grid = w.grid
    /\ clock = 0
    /\ req = [r \in Slots |-> NoRequest]
    /\ loc = [r \in Slots |-> IdleLoc]

\* a request reaches track: line 128 reads the clock
Arrive(r, bound, paths) ==
    /\ loc[r].pc \in {"idle", "done"}
    /\ clock < bound
    /\ clock' = clock + 1
    /\ \E p \in paths :
          req' = [req EXCEPT ![r] = [path |-> p, now |-> clock + 1]]
    /\ loc' = [loc EXCEPT ![r] = StartLoc]
    /\ UNCHANGED <<tabs, grid>>

\* track runs from entry to return with no other request in between
Track(r) ==
    /\ loc[r].pc = "start"
    /\ \E n \in Outcomes([tabs |-> tabs, grid |-> grid], loc[r], req[r]) :
          /\ tabs' = n.tabs
          /\ grid' = n.grid
          /\ loc' = [loc EXCEPT ![r] = Returned(n.loc)]
    /\ UNCHANGED <<clock, req>>

Request == Arrive(1, MaxReq, Paths(clock + 1))

Handle == Track(1)

Next == Request \/ Handle

Spec == Init /\ [][Next]_vars

----------------------------------------------------------------------------
(* Concurrent service: two handlers, interleaved store call by store call. *)
(* The web server runs handlers in parallel and the code takes no lock; no *)
(* store call is made to fail here.                                        *)

ConcPaths ==
    {MetadataPath([p EXCEPT !.email = e, !.sender = Sender]) :
        e \in {EmailA, EmailUpper},
        p \in {NoFields, WithOptional(NoFields, {"subject"}, S("z"))}}

ConcWorkbooks ==
    {w \in Workbooks : w.tabs # <<>> /\ RowValues1(w.grid[USA]) \in {<<>>, DefaultHeaders}}

ConcInit ==
    /\ \E w \in ConcWorkbooks : tabs = w.tabs /\ grid = w.grid
    /\ clock = 0
    /\ req = [r \in Slots |-> NoRequest]
    /\ loc = [r \in Slots |-> IdleLoc]

ConcArrive(r) == Arrive(r, MaxConcReq, ConcPaths)

\* the handler in slot r makes its next store call
StepReq(r) ==
    /\ loc[r].pc \notin {"idle", "done"}
    /\ LET n == Step([tabs |-> tabs, grid |-> grid], loc[r], req[r], FALSE)
       IN  /\ tabs' = n.tabs
           /\ grid' = n.grid
           /\ loc' = [loc EXCEPT ![r] = Returned(n.loc)]
    /\ UNCHANGED <<clock, req>>

ConcNext == \E r \in Slots : ConcArrive(r) \/ StepReq(r)

SpecConc == ConcInit /\ [][ConcNext]_vars

----------------------------------------------------------------------------
(* Vocabulary of the properties *)

\* HTTP 200, image/gif, body PIXEL_BYTES
PixelResponse(l) == l.status = 200 /\ l.mimetype = "image/gif" /\ l.data = PIXEL_BYTES

\* the step is one whole run of track in slot r
Handled(r) == loc[r].pc = "start" /\ loc'[r].pc = "done"

Fields(r) == DecodeToken(req[r].path).fields

\* an email, trimmed and case-folded
Normalize(e) == Lower(Strip(e))

\* the column (from 1) the header row gives to a name, 0 when it has none
ColumnOf(rows, name) ==
    IF InColMap(RowValues1(rows), S(name))
    THEN ColMap(RowValues1(rows), S(name)) + 1
    ELSE 0

BodyLen(rows) == IF rows = <<>> THEN 0 ELSE Len(rows) - 1

\* the sheet rows of a tab that hold the email e, up to normalization
RowsFor(rows, e) ==
    {k \in 2..Len(rows) :
        /\ ColumnOf(rows, "Leads_email") > 0
        /\ Normalize(Cell(rows[k], ColumnOf(rows, "Leads_email"))) = Normalize(e)}

\* the sheet rows whose email cell is exactly e
RowsHolding(rows, e) ==
    {k \in 2..Len(rows) :
        /\ ColumnOf(rows, "Leads_email") > 0
        /\ Cell(rows[k], ColumnOf(rows, "Leads_email")) = e}

CellOf(rows, k, name) == Cell(rows[k], ColumnOf(rows, name))

----------------------------------------------------------------------------
(* C1 *)

\* C1: every request to a tracking route ends with HTTP 200, image/gif and
\* PIXEL_BYTES, and no exception leaves track, whatever the token, the
\* metadata, the store's contents and the store's failures.
C1_TrackAlwaysReturnsPixel ==
    \A r \in Slots :
        loc[r].pc = "done" => PixelResponse(loc[r]) /\ loc[r].exc = ""

----------------------------------------------------------------------------
(* C2 *)

\* C2: a recorded open for an email that has no row in its collection appends
\* one row with status OPENED and count 1; a recorded open for an email that
\* has one row with count c appends nothing and leaves that one row with
\* status OPENED and count c + 1.  So n sequential recorded opens of one
\* email leave exactly one row, with count n.  (A collection has no row for
\* an email when no cell matches it even up to normalization; the rows
\* counted afterwards are those that hold the email as it was sent.)
C2_OneRowCountsOpens ==
    [][ \A r \in Slots :
          (Handled(r) /\ loc'[r].completed) =>
            LET t      == loc'[r].sheet_tab
                e      == Fields(r).email
                before == RowsHolding(grid[t], e)
                after  == RowsHolding(grid'[t], e)
            IN  /\ RowsFor(grid[t], e) = {} =>
                     /\ Cardinality(after) = 1
                     /\ BodyLen(grid'[t]) = BodyLen(grid[t]) + 1
                     /\ \A k \in after :
                          /\ CellOf(grid'[t], k, "Open_count") = S("1")
                          /\ CellOf(grid'[t], k, "Open_status") = S("OPENED")
                /\ \A k \in before :
                     ( /\ RowsFor(grid[t], e) = {k}
                       /\ IsIntLiteral(CellOf(grid[t], k, "Open_count")) ) =>
                       /\ after = {k}
                       /\ BodyLen(grid'[t]) = BodyLen(grid[t])
                       /\ CellOf(grid'[t], k, "Open_count") =
                            StrOfInt(IntOf(CellOf(grid[t], k, "Open_count")) + 1)
                       /\ CellOf(grid'[t], k, "Open_status") = S("OPENED")
      ]_vars

----------------------------------------------------------------------------
(* C3 *)

\* C3: each collection holds at most one row per normalized email, the
\* normalization being applied to the stored cell and to the incoming email.
C3_OneRowPerNormalizedEmail ==
    \A t \in TabTitles :
        \A j, k \in 2..Len(grid[t]) :
            (j # k /\ ColumnOf(grid[t], "Leads_email") > 0) =>
                Normalize(CellOf(grid[t], j, "Leads_email"))
                    # Normalize(CellOf(grid[t], k, "Leads_email"))

----------------------------------------------------------------------------
(* C4 *)

\* column name and metadata field of each optional column
OptionalColumns ==
    << <<"Subject", "subject">>, <<"Campaign_name", "sheet_name">>,
       <<"Timezone", "timezone">>, <<"Start_Date", "date">>,
       <<"Template", "template">> >>

FieldValue(f, name) ==
    CASE name = "subject" -> f.subject
      [] name = "sheet_name" -> f.sheet_name
      [] name = "timezone" -> f.timezone
      [] name = "date" -> f.date
      [] name = "template" -> f.template

\* C4: when an open updates an existing row, each optional column whose input
\* field is empty keeps the value it had before the open, and no optional
\* column goes from a non-empty value to an empty one.
C4_EmptyFieldsKeepCells ==
    [][ \A r \in Slots :
          (Handled(r) /\ loc'[r].ridx > 0) =>
            LET t == loc'[r].sheet_tab
                k == loc'[r].ridx
            IN  \A i \in 1..Len(OptionalColumns) :
                  LET c == ColumnOf(grid'[t], OptionalColumns[i][1])
                      v == FieldValue(Fields(r), OptionalColumns[i][2])
                  IN  c > 0 =>
                        /\ v = EmptyStr => Cell(grid'[t][k], c) = Cell(grid[t][k], c)
                        /\ Cell(grid[t][k], c) # EmptyStr => Cell(grid'[t][k], c) # EmptyStr
      ]_vars

\* an update that wrote Template and left the recorded Subject alone
C4_Witness ==
    \E r \in Slots :
        /\ loc[r].completed /\ loc[r].ridx > 0
        /\ Fields(r).subject = EmptyStr /\ Fields(r).template = S("z")
        /\ CellOf(grid[loc[r].sheet_tab], loc[r].ridx, "Subject") = S("w")
        /\ CellOf(grid[loc[r].sheet_tab], loc[r].ridx, "Template") = S("z")

----------------------------------------------------------------------------
(* C5 *)

\* C5: with a sent_time that parses as ISO-8601, with or without an offset:
\* under 7 seconds before processing the store is left unchanged and the pixel
\* returned; at 7 seconds or more, with email and sender and no store failure,
\* the row for the email is created or updated.
C5_SuppressionWindow ==
    [][ \A r \in Slots :
          ( /\ Handled(r)
            /\ req[r].path.b64 = "ok" /\ req[r].path.json = "object"
            /\ req[r].path.metadata = "mapping"
            /\ req[r].path.fields.sent_time.form \in {"iso_offset", "iso_naive"} ) =>
            LET f       == req[r].path.fields
                elapsed == req[r].now - f.sent_time.at
            IN  /\ elapsed < SuppressSeconds =>
                     tabs' = tabs /\ grid' = grid /\ PixelResponse(loc'[r])
                /\ ( /\ elapsed >= SuppressSeconds
                     /\ f.email # EmptyStr /\ f.sender # EmptyStr
                     /\ loc'[r].fault = "" ) =>
                     /\ loc'[r].completed
                     /\ RowsHolding(grid'[loc'[r].sheet_tab], f.email) # {}
      ]_vars

----------------------------------------------------------------------------
(* C6 *)

\* a token that fails decoding: malformed base64, invalid JSON, a top-level
\* value that is no object, or a metadata value that is no mapping
FailsDecoding(path) ==
    \/ path.b64 # "ok"
    \/ path.json # "object"
    \/ path.metadata \in {"null", "list", "string"}

\* C6: a token that fails decoding is treated as no metadata: no exception
\* leaves track, the store is not touched and the response is the pixel.
C6_UndecodableTokenIsNoMetadata ==
    [][ \A r \in Slots :
          (Handled(r) /\ FailsDecoding(req[r].path)) =>
            /\ loc'[r].exc = ""
            /\ PixelResponse(loc'[r])
            /\ tabs' = tabs /\ grid' = grid
      ]_vars

----------------------------------------------------------------------------
(* C7 *)

IsPrefix(a, b) == Len(a) <= Len(b) /\ SubSeq(b, 1, Len(a)) = a

NotIn(h, c) == \A i \in 1..Len(h) : h[i] # c

\* the required column names a header lacks, in the order of Required
RECURSIVE MissingFrom(_, _)
MissingFrom(h, k) ==
    IF k > Len(Required) THEN <<>>
    ELSE (IF NotIn(h, Required[k]) THEN <<Required[k]>> ELSE <<>>)
         \o MissingFrom(h, k + 1)

\* C7: for a non-empty header row, every step keeps the existing columns
\* where they are and adds, at the end, only required columns the header
\* lacked, each once and in order; an upsert that got as far as reading the
\* rows has added all of them; so a complete header is never written again.
C7_HeaderHealing ==
    [][ \A t \in TabTitles :
          LET h    == RowValues1(grid[t])
              h2   == RowValues1(grid'[t])
              miss == MissingFrom(h, 1)
          IN  h # <<>> =>
                /\ IsPrefix(h, h2)
                /\ IsPrefix(SubSeq(h2, Len(h) + 1, Len(h2)), miss)
                /\ (\E r \in Slots :
                      Handled(r) /\ loc'[r].sheet_tab = t /\ loc'[r].ridx >= 0)
                   => h2 = h \o miss
      ]_vars

\* a header healed by one upsert and left alone by the next
C7_Witness ==
    \E r \in Slots :
        /\ loc[r].completed /\ loc[r].sheet_tab = UK
        /\ RowValues1(grid[UK]) = LegacyHeaders \o Required
        /\ Len(grid[UK]) = 2
        /\ CellOf(grid[UK], 2, "Open_count") = S("2")

----------------------------------------------------------------------------
(* C8 *)

\* C8: a request whose metadata lacks a non-empty email or a non-empty sender
\* writes nothing to the store (no row, no header, no tab), and gets the pixel.
C8_PartialMetadataWritesNothing ==
    [][ \A r \in Slots :
          ( /\ Handled(r)
            /\ req[r].path.b64 = "ok" /\ req[r].path.json = "object"
            /\ req[r].path.metadata = "mapping"
            /\ (req[r].path.fields.email = EmptyStr
                \/ req[r].path.fields.sender = EmptyStr) ) =>
            /\ tabs' = tabs /\ grid' = grid
            /\ PixelResponse(loc'[r])
      ]_vars

----------------------------------------------------------------------------
(* C9 *)

OpenCalls == {"open", "worksheets", "add_worksheet", "worksheet"}

\* C9: when opening the workbook, listing its tabs, creating the tab or
\* opening the tab fails, update_sheet is not invoked, no row is created or
\* updated, and the response is the pixel.
C9_OpenFailureRecordsNothing ==
    [][ \A r \in Slots :
          (Handled(r) /\ loc'[r].fault \in OpenCalls) =>
            /\ ~loc'[r].invoked
            /\ grid' = grid
            /\ loc'[r].exc = ""
            /\ PixelResponse(loc'[r])
      ]_vars

\* an open with email and sender whose tab was created but could not be opened
C9_Witness ==
    \E r \in Slots :
        /\ loc[r].pc = "done" /\ loc[r].fault = "worksheet"
        /\ Fields(r).email # EmptyStr /\ Fields(r).sender # EmptyStr
        /\ InTabs(loc[r].sheet_tab, tabs) /\ grid[loc[r].sheet_tab] = <<>>
        /\ PixelResponse(loc[r])

----------------------------------------------------------------------------
(* C10 *)

Duplicated(rows) ==
    \E j, k \in 2..Len(rows) :
        /\ j # k
        /\ ColumnOf(rows, "Leads_email") > 0
        /\ Normalize(CellOf(rows, j, "Leads_email"))
             = Normalize(CellOf(rows, k, "Leads_email"))

\* the rows a handler read at line 75 hold no row for the email
ScanSawNone(l, e) ==
    \A k \in 1..Len(l.body) :
        Normalize(l.body[k][ColMap(l.headers, S("Leads_email")) + 1]) # Normalize(e)

\* C10: with handlers interleaved, a collection gets two rows for one
\* normalized email only through an append_row of a handler whose scan saw no
\* row for the email while the collection holds one by the time it appends:
\* nothing makes the scan and the append one step.
C10_DuplicateNeedsStaleScan ==
    [][ \A t \in TabTitles :
          (~Duplicated(grid[t]) /\ Duplicated(grid'[t])) =>
            \E r \in Slots :
                /\ loc[r].pc = "todo" /\ loc'[r] # loc[r]
                /\ loc[r].sheet_tab = t
                /\ Head(loc[r].todo).op = "append_row"
                /\ ScanSawNone(loc[r], Fields(r).email)
                /\ RowsFor(grid[t], Fields(r).email) # {}
      ]_vars

\* two handlers for one email both found no row and both appended
C10_Witness ==
    /\ \A r \in Slots : loc[r].completed /\ loc[r].ridx = 0 /\ loc[r].sheet_tab = USA
    /\ Normalize(Fields(1).email) = Normalize(Fields(2).email)
    /\ Cardinality(RowsFor(grid[USA], Fields(1).email)) = 2

----------------------------------------------------------------------------
(* C11 *)

\* the count a handler read at line 75 for the row it matched
SnapshotCount(l) ==
    LET cnt == l.body[l.ridx - 1][ColMap(l.headers, S("Open_count")) + 1]
    IN  IF cnt = EmptyStr THEN 0 ELSE IntOf(cnt)

\* C11: with handlers interleaved, whenever the Open_count cell of an existing
\* row changes, a handler that matched that row wrote it, and the value is the
\* count in that handler's own snapshot plus one, whatever the cell holds by
\* then.  Two handlers that both read c therefore both write c + 1: two opens
\* are recorded and the count has grown by one.
C11_CountWrittenFromSnapshot ==
    [][ \A t \in TabTitles : \A k \in 2..Len(grid[t]) :
          ( /\ ColumnOf(grid[t], "Open_count") > 0
            /\ CellOf(grid'[t], k, "Open_count") # CellOf(grid[t], k, "Open_count") ) =>
            \E r \in Slots :
                /\ loc[r].pc = "todo" /\ loc'[r] # loc[r]
                /\ loc[r].sheet_tab = t /\ loc[r].ridx = k
                /\ Head(loc[r].todo).op = "update_cell"
                /\ CellOf(grid'[t], k, "Open_count")
                     = StrOfInt(SnapshotCount(loc[r]) + 1)
      ]_vars

\* two opens of one row that held count 1 were both recorded, and it holds 2
C11_Witness ==
    /\ clock = 2
    /\ \A r \in Slots : loc[r].completed /\ loc[r].ridx = 2 /\ loc[r].sheet_tab = USA
    /\ CellOf(grid[USA], 2, "Open_count") = S("2")
    /\ CellOf(grid[USA], 2, "Open_status") = S("OPENED")

----------------------------------------------------------------------------
(* C12 *)

\* the column (from 1) whose header is the name up to letter case, 0 if none
FoldedColumnOf(rows, name) ==
    LET h == RowValues1(rows)
    IN  IF \E i \in 1..Len(h) : Lower(h[i]) = Lower(S(name))
        THEN CHOOSE i \in 1..Len(h) : Lower(h[i]) = Lower(S(name))
        ELSE 0

\* the header names every column the program uses, in whatever letter case
NamesAllColumns(rows) ==
    \A i \in 1..Len(DefaultHeaders) :
        \E j \in 1..Len(RowValues1(rows)) :
            Lower(RowValues1(rows)[j]) = Lower(DefaultHeaders[i])

\* C12: columns are found by name whatever the letter case.  When the header
\* of the tab names every needed column, in any order and any letter case, an
\* upsert that no store failure interrupts adds no column to the header,
\* completes without error, and leaves a row for the email whose status, in
\* the column the header already had for it, is OPENED.
C12_ColumnsFoundWhateverTheCase ==
    [][ \A r \in Slots :
          ( /\ Handled(r) /\ loc'[r].invoked /\ loc'[r].fault = ""
            /\ NamesAllColumns(grid[loc'[r].sheet_tab]) ) =>
            LET t == loc'[r].sheet_tab
                c == FoldedColumnOf(grid[t], "Leads_email")
            IN  /\ RowValues1(grid'[t]) = RowValues1(grid[t])
                /\ loc'[r].completed /\ loc'[r].exc = ""
                /\ \E k \in 2..Len(grid'[t]) :
                     /\ Normalize(Cell(grid'[t][k], c)) = Normalize(Fields(r).email)
                     /\ Cell(grid'[t][k], FoldedColumnOf(grid[t], "Open_status"))
                          = S("OPENED")
      ]_vars

----------------------------------------------------------------------------
(* C13 *)

\* a cell read as an integer, an empty or non-numeric cell as zero
CountOrZero(cell) == IF IsIntLiteral(cell) THEN IntOf(cell) ELSE 0

\* C13: when an open updates an existing row (the row its scan matched), in
\* a tab whose header has the timestamp column, and no store call fails, the
\* update completes and the row's Open_count is the prior cell read as an
\* integer, empty or non-numeric read as zero, plus one.
C13_CountFromPriorOrZero ==
    [][ \A r \in Slots :
          ( /\ Handled(r) /\ loc'[r].invoked /\ loc'[r].fault = ""
            /\ loc'[r].ridx > 0
            /\ ColumnOf(grid[loc'[r].sheet_tab], "Open_timestamp") > 0 ) =>
            LET t == loc'[r].sheet_tab
                k == loc'[r].ridx
            IN  /\ loc'[r].completed /\ loc'[r].exc = ""
                /\ CellOf(grid'[t], k, "Open_count")
                     = StrOfInt(CountOrZero(CellOf(grid[t], k, "Open_count")) + 1)
      ]_vars

----------------------------------------------------------------------------
(* C14 *)

\* the tab a request is for, given the workbook's tabs when it arrives
TargetTab(r) ==
    IF Fields(r).sheet # EmptyStr THEN Fields(r).sheet
    ELSE IF Len(tabs) > 0 THEN tabs[1]
    ELSE S("USA")

\* C14: a request without a tab name is for the workbook's first tab, or for
\* USA when the workbook has none.  A request creates no tab but its own, and
\* that one only when the workbook does not have it; when its upsert
\* completes, the tab exists once and the row carrying the request's timestamp
\* is in that tab.
C14_TabResolution ==
    [][ \A r \in Slots :
          Handled(r) =>
            /\ \/ tabs' = tabs
               \/ ~InTabs(TargetTab(r), tabs) /\ tabs' = Append(tabs, TargetTab(r))
            /\ loc'[r].completed =>
                 /\ loc'[r].sheet_tab = TargetTab(r)
                 /\ Cardinality({i \in 1..Len(tabs') : tabs'[i] = TargetTab(r)}) = 1
                 /\ \E k \in 2..Len(grid'[TargetTab(r)]) :
                      /\ Normalize(CellOf(grid'[TargetTab(r)], k, "Leads_email"))
                           = Normalize(Fields(r).email)
                      /\ CellOf(grid'[TargetTab(r)], k, "Open_timestamp")
                           = Strftime(req[r].now)
      ]_vars

\* an open without a tab name was recorded in the first tab, which is not USA
C14_Witness ==
    \E r \in Slots :
        /\ loc[r].completed /\ Fields(r).sheet = EmptyStr
        /\ tabs # <<>> /\ tabs[1] = UK /\ loc[r].sheet_tab = UK
        /\ \E k \in 2..Len(grid[UK]) :
             CellOf(grid[UK], k, "Open_timestamp") = Strftime(req[r].now)

----------------------------------------------------------------------------
(* C15 *)

\* what a new row for the request in slot r holds under a column name
NewRowValue(r, name) ==
    CASE name = "Open_timestamp" -> Strftime(req[r].now)
      [] name = "Last_open_timestamp" -> Strftime(req[r].now)
      [] name = "Open_status" -> S("OPENED")
      [] name = "Open_count" -> S("1")
      [] name = "Leads_email" -> Fields(r).email
      [] name = "From" -> Fields(r).sender
      [] name = "Subject" -> Fields(r).subject
      [] name = "Campaign_name" -> Fields(r).sheet_name
      [] name = "Timezone" -> Fields(r).timezone
      [] name = "Start_Date" -> Fields(r).date
      [] name = "Template" -> Fields(r).template

KnownNames ==
    {"Open_timestamp", "Last_open_timestamp", "Open_status", "Open_count",
     "Leads_email", "From", "Subject", "Campaign_name", "Timezone", "Start_Date",
     "Template"}

----------------------------------------------------------------------------
(* C16 *)

\* C16: whatever a request does and wherever a store call stops it, every
\* tab keeps the rows it had, in place; a data row whose normalized email is
\* not the request's keeps every cell; a row that is for the request's email
\* keeps its email cell; and the tab has as many data rows as before or one
\* more.
C16_RowsStayInPlace ==
    [][ \A r \in Slots :
          Handled(r) =>
            \A t \in TabTitles :
              /\ BodyLen(grid'[t]) \in {BodyLen(grid[t]), BodyLen(grid[t]) + 1}
              /\ \A k \in 2..Len(grid[t]) :
                   /\ CellOf(grid'[t], k, "Leads_email") = CellOf(grid[t], k, "Leads_email")
                   /\ Normalize(CellOf(grid[t], k, "Leads_email"))
                        # Normalize(Fields(r).email) => grid'[t][k] = grid[t][k]
      ]_vars

\* an open updated its row in a tab that also has a row for another email
C16_Witness ==
    \E r \in Slots :
        /\ loc[r].completed /\ loc[r].ridx > 0
        /\ CellOf(grid[loc[r].sheet_tab], loc[r].ridx, "Open_timestamp")
             = Strftime(req[r].now)
        /\ \E k \in 2..Len(grid[loc[r].sheet_tab]) :
             /\ Normalize(CellOf(grid[loc[r].sheet_tab], k, "Leads_email"))
                  # Normalize(Fields(r).email)
             /\ CellOf(grid[loc[r].sheet_tab], k, "Open_timestamp") # Strftime(req[r].now)

----------------------------------------------------------------------------
(* C17 *)

\* C17: a recorded open of an email that already has its row (a second or
\* later open) leaves the row's Open_timestamp as the first open wrote it and
\* sets its Last_open_timestamp to the timestamp of this open.
C17_FirstAndLastTimestamps ==
    [][ \A r \in Slots :
          (Handled(r) /\ loc'[r].completed /\ loc'[r].ridx > 0) =>
            LET t == loc'[r].sheet_tab
                k == loc'[r].ridx
            IN  /\ CellOf(grid'[t], k, "Last_open_timestamp") = Strftime(req[r].now)
                /\ CellOf(grid'[t], k, "Open_timestamp") = CellOf(grid[t], k, "Open_timestamp")
      ]_vars

----------------------------------------------------------------------------
(* C18 *)

\* a cell write of the update of the row matched by the handler l failed
UpdateCut(l) == l.ridx > 0 /\ l.fault = "update_cell"

\* C18: the update of an existing row is all-or-nothing: when a cell write
\* fails during the update, no cell of the row has changed.
C18_UpdateAllOrNothing ==
    [][ \A r \in Slots :
          (Handled(r) /\ UpdateCut(loc'[r])) =>
            grid'[loc'[r].sheet_tab][loc'[r].ridx] = grid[loc'[r].sheet_tab][loc'[r].ridx]
      ]_vars

\* the columns an update writes, in the order it writes them
WriteOrder ==
    <<"Open_count", "Open_timestamp", "Open_status", "From", "Subject",
      "Campaign_name", "Timezone", "Start_Date", "Template">>

\* what the update for the request in slot r writes under a column of the row
\* that holds cell there: nothing new when the optional field is empty
UpdateValue(r, name, cell) ==
    IF name = "Open_count" THEN StrOfInt(CountOrZero(cell) + 1)
    ELSE IF name \in {"Open_timestamp", "Open_status", "From"} THEN NewRowValue(r, name)
    ELSE IF NewRowValue(r, name) = EmptyStr THEN cell
    ELSE NewRowValue(r, name)

\* C18, amended: the update is a sequence of single cell writes in the order
\* Open_count, Open_timestamp, Open_status, From, then the optional fields
\* that are present.  When one of them fails, the writes before it stand and
\* none after it is made: the row differs from what it was in a prefix of
\* that order, and in no other column.
C18_UpdateCutLeavesPrefix ==
    [][ \A r \in Slots :
          (Handled(r) /\ UpdateCut(loc'[r])) =>
            LET t   == loc'[r].sheet_tab
                k   == loc'[r].ridx
                h   == RowValues1(grid'[t])
            IN  /\ \E j \in 0..(Len(WriteOrder) - 1) :
                     \A i \in 1..Len(WriteOrder) :
                        CellOf(grid'[t], k, WriteOrder[i]) =
                          IF i <= j
                          THEN UpdateValue(r, WriteOrder[i], CellOf(grid[t], k, WriteOrder[i]))
                          ELSE CellOf(grid[t], k, WriteOrder[i])
                /\ \A c \in 1..Len(h) :
                     (\A i \in 1..Len(WriteOrder) : ColumnOf(grid'[t], WriteOrder[i]) # c)
                       => Cell(grid'[t][k], c) = Cell(grid[t][k], c)
      ]_vars

\* the count of a row went from 1 to 2 and the write of the timestamp failed
C18_Witness ==
    \E r \in Slots :
        /\ loc[r].pc = "done" /\ UpdateCut(loc[r]) /\ loc[r].exc = "APIError"
        /\ CellOf(grid[loc[r].sheet_tab], loc[r].ridx, "Open_count") = S("2")
        /\ CellOf(grid[loc[r].sheet_tab], loc[r].ridx, "Open_timestamp") = S("T0")
        /\ Strftime(req[r].now) # S("T0")

----------------------------------------------------------------------------
(* C19 *)

\* C19: a request changes no tab but the one it is for: every other tab keeps
\* its header and every cell, and the workbook's tabs stay as they were or
\* gain the request's tab at the end, wherever a store call stops the request.
C19_OtherTabsUntouched ==
    [][ \A r \in Slots :
          Handled(r) =>
            /\ \A t \in TabTitles : t # TargetTab(r) => grid'[t] = grid[t]
            /\ \A i \in 1..Len(tabs) : i <= Len(tabs') /\ tabs'[i] = tabs[i]
            /\ \A i \in (Len(tabs) + 1)..Len(tabs') :
                 i = Len(tabs) + 1 /\ tabs'[i] = TargetTab(r)
      ]_vars

\* an open was recorded in UK while the workbook's first tab USA has rows,
\* none of which carries the timestamp of this open
C19_Witness ==
    \E r \in Slots :
        /\ loc[r].completed /\ Fields(r).sheet = UK
        /\ tabs # <<>> /\ tabs[1] = USA /\ Len(grid[USA]) >= 2
        /\ \E k \in 2..Len(grid[UK]) :
             CellOf(grid[UK], k, "Open_timestamp") = Strftime(req[r].now)
        /\ \A k \in 2..Len(grid[USA]) :
             CellOf(grid[USA], k, "Open_timestamp") # Strftime(req[r].now)

----------------------------------------------------------------------------
(* C20 *)

\* the request in slot r without its sent_time
WithoutSentTime(r) ==
    [req[r] EXCEPT !.path.fields.sent_time = NoFields.sent_time]

\* the tab has no header yet or the header the program writes
PlainTab(rows) == RowValues1(rows) \in {<<>>, DefaultHeaders}

====
